---- MODULE Spec2Model ----
(***************************************************************************)
(* A model of model.py: FeatureExtractor, Regressioner and Classifier.     *)
(*                                                                         *)
(* Tensors are modelled by their shape (a sequence of dimensions) and a    *)
(* symbolic value that records how the tensor was produced.  The two       *)
(* global random generators the code draws from (numpy's, used by          *)
(* np.random.shuffle / np.random.randint, and torch's, used by             *)
(* nn.init.xavier_uniform_) are modelled by their state: a draw is a       *)
(* function of the state and moves the state on; seeding sets the state.   *)
(* Learned weights are not modelled: a layer is named by its kind, its     *)
(* widths and its place, and a value by the layers applied to produce it.  *)
(*                                                                         *)
(* Spec        : construction of the three classes, and the heads' forward *)
(* SpecForward : the methods of a constructed FeatureExtractor             *)
(***************************************************************************)
EXTENDS Integers, Sequences, FiniteSets, TLC

VARIABLES
    proc,         \* "running" | "exited": sys.exit terminates the process
    stdout,       \* what print() has written
    net,          \* the module instance the program holds (or NoNet)
    ctor,         \* the last constructor call: its class, arguments and error
    last,         \* the last method call on net: arguments, trace, result
    np_state,     \* state of numpy's global generator
    torch_state,  \* state of torch's global generator
    again         \* last forward call compared with the forward call before it

vars == <<proc, stdout, net, ctor, last, np_state, torch_state, again>>

----------------------------------------------------------------------------
(* Bounds of the model *)

MaxTimeLen == 2
MaxChan == 2
MaxBatch == 2
MaxLen == 4
MaxFcLayers == 7
MaxInDim == 2
NpSeeds == 18
TorchPeriod == 3

(* Constants of the program *)

ProjDim == 512
ClassifierOut == 2
MaxFc == 5
SmallResDim == 512
LargeResDim == 2048

ResnetDepths == {18, 34, 50, 101, 152}

----------------------------------------------------------------------------
(* Shapes *)

RECURSIVE Prod(_)
Prod(s) == IF s = <<>> THEN 1 ELSE Head(s) * Prod(Tail(s))

RECURSIVE SumSeq(_)
SumSeq(s) == IF s = <<>> THEN 0 ELSE Head(s) + SumSeq(Tail(s))

LastDim(shape) == shape[Len(shape)]

\* shape with dimension d (0-based, as in torch) removed
DropDim(shape, d) == SubSeq(shape, 1, d) \o SubSeq(shape, d + 2, Len(shape))

\* x.unsqueeze(1)
Unsqueeze1(shape) == <<shape[1], 1>> \o Tail(shape)

\* x.permute(p) with p a sequence of 0-based dimensions
Permute(shape, p) == [i \in 1..Len(p) |-> shape[p[i] + 1]]

Min(a, b) == IF a <= b THEN a ELSE b

\* dynamic[..., lo:hi] for 0 <= lo <= hi: Python clamps the slice to the axis
SliceLast(shape, lo, hi) ==
    [shape EXCEPT ![Len(shape)] = Min(hi, LastDim(shape)) - Min(lo, LastDim(shape))]

\* a variant that flattens the batch axis too
Flatten1_all(shape) == <<Prod(shape)>>

\* torch.flatten(x, start_dim=1, end_dim=-1)
Flatten1(shape) == <<shape[1], Prod(Tail(shape))>>

----------------------------------------------------------------------------
(* Values the model uses for "nothing" *)

NoNet == [class |-> "none"]
NoTensor == [shape |-> <<>>, val |-> [kind |-> "none"]]
NoCall == [op |-> "none"]
NoCtor == [class |-> "none"]
NoError == [type |-> "none", at |-> "none"]
ZeroState == [kind |-> "zeros"]

Error(type, at) == [type |-> type, at |-> at]

----------------------------------------------------------------------------
(* torch's global generator, as nn.init.xavier_uniform_ uses it: the tensor  *)
(* drawn is named by the generator state it was drawn in, and the state      *)
(* moves on, so that two successive draws are different tensors.             *)

TorchNext(s) == (s + 1) % TorchPeriod

xavier_uniform(shape, s) ==
    [tensor |-> [shape |-> shape, val |-> [kind |-> "xavier", draw |-> s],
                 dev |-> "cpu"],
     th |-> TorchNext(s)]

\* t.cuda(): the tensor on the GPU; of a tensor already there, the tensor itself
ToCuda(t) == [t EXCEPT !.dev = "cuda"]

----------------------------------------------------------------------------
(* The convolutional backbone (arch.resnet) maps [batch, channels, n] to    *)
(* [batch, conv_last_dim, steps]: it shortens the time axis.                *)

ConvTimeSteps(n) == (n + 1) \div 2

ResDim(depth) == IF depth \in {18, 34} THEN SmallResDim ELSE LargeResDim

----------------------------------------------------------------------------
(* FeatureExtractor.init_hidden(hidden_dim, batch, layer), from generator   *)
(* state th.  The cell state is drawn too, and with _cuda set it is then    *)
(* overwritten by document_rnn_init_h.cuda().                               *)

\* a variant whose cell state is its own draw, moved to the GPU
init_hidden_fresh(self, hidden_dim, batch, layer, th) ==
    LET d1 == xavier_uniform(<<layer, batch, hidden_dim>>, th)
        h  == IF self.cuda THEN ToCuda(d1.tensor) ELSE d1.tensor
    IN  IF self.time_type = "lstm"
        THEN LET d2 == xavier_uniform(<<layer, batch, hidden_dim>>, d1.th)
                 c  == IF self.cuda THEN ToCuda(d2.tensor) ELSE d2.tensor
             IN  [hc |-> [kind |-> "pair", h |-> h, c |-> c], th |-> d2.th]
        ELSE [hc |-> [kind |-> "None"], th |-> d1.th]

init_hidden(self, hidden_dim, batch, layer, th) ==
    LET d1 == xavier_uniform(<<layer, batch, hidden_dim>>, th)
        h  == IF self.cuda THEN ToCuda(d1.tensor) ELSE d1.tensor
    IN  IF self.time_type = "lstm"
        THEN LET d2 == xavier_uniform(<<layer, batch, hidden_dim>>, d1.th)
                 c  == IF self.cuda THEN ToCuda(h) ELSE d2.tensor
             IN  [hc |-> [kind |-> "pair", h |-> h, c |-> c], th |-> d2.th]
        ELSE [hc |-> [kind |-> "None"], th |-> d1.th]

\* assert dynamic.shape[1] == self.sequence_num, on the shape d
ChannelsOk(self, d) == d[2] = self.sequence_num

(* FeatureExtractor.get_feature(dynamic, batch, reset), from generator      *)
(* state th.  The batch argument is overwritten by dynamic.shape[0].        *)

get_feature(self, dynamic, reset, th) ==
    LET batch == dynamic.shape[1]
        d     == IF Len(dynamic.shape) = 2 THEN Unsqueeze1(dynamic.shape)
                 ELSE dynamic.shape
    IN  IF ~ChannelsOk(self, d)
        THEN [err |-> Error("AssertionError", "get_feature"),
              out |-> NoTensor, th |-> th]
        ELSE
        LET conv   == <<d[1], self.time_hid_dim, ConvTimeSteps(LastDim(d))>>
            x1     == Permute(conv, <<2, 0, 1>>)
            use    == reset /\ self.time_type \in {"lstm"}
            ih     == init_hidden(self, self.time_hid_dim, batch, 1, th)
            \* nn.LSTM(hid, hid): output [steps, batch, hid]; x = x[0]
            x2     == <<x1[1], x1[2], self.time_hid_dim>>
            x3     == Permute(x2, <<1, 2, 0>>)
            \* conv1x1: Conv1d(hid, 512, kernel_size=1)
            x4     == <<x3[1], ProjDim, x3[3]>>
        IN  [err |-> NoError,
             out |-> [shape |-> x4,
                      val |-> [kind |-> "feature", of |-> dynamic.val,
                               init |-> IF use THEN ih.hc ELSE ZeroState]],
             th  |-> IF use THEN ih.th ELSE th]

\* the print before sys.exit(-1)
DepthMessage(got) == [msg |-> "ResNet arch supports layer", got |-> got]

Passed == [err |-> NoError, printed |-> <<>>, exit |-> FALSE]

\* a variant that reports and exits for an unknown family too
SelectBackbone_exit_always(a) ==
    IF a.cnn_type = "resnet" /\ a.cnn_config \in ResnetDepths
    THEN Passed
    ELSE [err |-> Error("SystemExit", "cnn_config"),
          printed |-> <<DepthMessage(a.cnn_config)>>, exit |-> TRUE]

\* __init__: the choice of self.conv by cnn_type and cnn_config
SelectBackbone(a) ==
    IF a.cnn_type = "resnet"
    THEN IF a.cnn_config \in ResnetDepths
         THEN Passed
         ELSE [err |-> Error("SystemExit", "cnn_config"),
               printed |-> <<DepthMessage(a.cnn_config)>>, exit |-> TRUE]
    ELSE [err |-> Error("NotImplementedError", "cnn_type"),
          printed |-> <<>>, exit |-> FALSE]

\* __init__: the choice of self.time_net by time_type
SelectAggregator(a) ==
    IF a.time_type = "lstm"
    THEN Passed
    ELSE [err |-> Error("NotImplementedError", "time_type"),
          printed |-> <<>>, exit |-> FALSE]

(* FeatureExtractor.__init__ *)

FeatureExtractor_init(a) ==
    LET self0 == [class |-> "FeatureExtractor",
                  time_len |-> a.time_len, sequence_num |-> a.sequence_num,
                  output_dim |-> a.output_dim, cnn_type |-> a.cnn_type,
                  time_type |-> a.time_type, fc_layers |-> a.fc_layers,
                  cuda |-> a.cuda, dropout |-> a.dropout,
                  cnn_config |-> a.cnn_config]
        conv  == SelectBackbone(a)
        time  == SelectAggregator(a)
    IN  IF conv.err # NoError
        THEN [err |-> conv.err, printed |-> conv.printed, exit |-> conv.exit,
              self |-> NoNet]
        ELSE IF time.err # NoError
        THEN [err |-> time.err, printed |-> time.printed, exit |-> time.exit,
              self |-> NoNet]
        ELSE
        LET self1 == self0 @@ [time_hid_dim |-> ResDim(a.cnn_config)]
            x     == [shape |-> <<1, a.sequence_num, a.time_len>>,
                      val |-> [kind |-> "zeros"]]
            probe == get_feature(self1, x, FALSE, 0)
        IN  [err |-> NoError, printed |-> <<>>, exit |-> FALSE,
             self |-> self1 @@ [fc_dim |-> Prod(probe.out.shape) \div 1]]

----------------------------------------------------------------------------
(* The fully connected heads *)

\* nn.Linear(in, out); idx names the layer, and so its weights
Linear(idx, in, out) == [kind |-> "Linear", idx |-> idx, in |-> in, out |-> out]
Dropout == [kind |-> "Dropout"]
Identity == [kind |-> "Identity"]
LeakyReLU == [kind |-> "LeakyReLU"]
LogSoftmax == [kind |-> "LogSoftmax"]
Sequential(mods) == [kind |-> "Sequential", mods |-> mods]

\* a variant with a narrowing table
FcDimList_narrow(in_dim) == <<in_dim, 512, 256, 128, 128, 64>>

\* fc_dim_list; Python's fc_dim_list[i] is FcDimList(in_dim)[i + 1]
FcDimList(in_dim) == <<in_dim, 512, 256, 256, 128, 128>>

\* a variant that lets fc_layers = 0 through
FcLayersOk_lower(fc_layers) == fc_layers <= MaxFc /\ fc_layers >= 0

\* assert self.fc_layers <= 5 and self.fc_layers > 0
FcLayersOk(fc_layers) == fc_layers <= MaxFc /\ fc_layers > 0

\* range(n) as a sequence; empty for n <= 0
Range(n) == [i \in 1..n |-> i - 1]

RegressionerStage(a, i) ==
    Sequential(<<Linear(i, FcDimList(a.in_dim)[i + 1], FcDimList(a.in_dim)[i + 2]),
                 IF a.dropout THEN Dropout ELSE Identity,
                 LeakyReLU>>)

(* Regressioner.__init__ *)

Regressioner_init(a) ==
    IF ~FcLayersOk(a.fc_layers)
    THEN [err |-> Error("AssertionError", "fc_layers"), self |-> NoNet]
    ELSE [err |-> NoError,
          self |-> [class |-> "Regressioner", in_dim |-> a.in_dim,
                    output_dim |-> a.output_dim, fc_layers |-> a.fc_layers,
                    cuda |-> a.cuda, dropout |-> a.dropout,
                    fc |-> [i \in 1..a.fc_layers |-> RegressionerStage(a, i - 1)]
                           \o <<Linear(a.fc_layers, FcDimList(a.in_dim)[a.fc_layers + 1],
                                       a.output_dim)>>]]

RECURSIVE ClassifierHidden(_, _)
ClassifierHidden(a, i) ==
    IF i >= a.fc_layers THEN <<>>
    ELSE <<Linear(i, FcDimList(a.in_dim)[i + 1], FcDimList(a.in_dim)[i + 2])>>
         \o (IF a.dropout THEN <<Dropout>> ELSE <<>>)
         \o <<LeakyReLU>>
         \o ClassifierHidden(a, i + 1)

(* Classifier.__init__ *)

Classifier_init(a) ==
    IF ~FcLayersOk(a.fc_layers)
    THEN [err |-> Error("AssertionError", "fc_layers"), self |-> NoNet]
    ELSE [err |-> NoError,
          self |-> [class |-> "Classifier", in_dim |-> a.in_dim,
                    fc_layers |-> a.fc_layers,
                    cuda |-> a.cuda, dropout |-> a.dropout,
                    fc |-> ClassifierHidden(a, 0)
                           \o <<Linear(a.fc_layers, FcDimList(a.in_dim)[a.fc_layers + 1],
                                       ClassifierOut)>>
                           \o <<LogSoftmax>>]]

(* Applying a module to a tensor [batch, width]: a Linear needs its input  *)
(* width; a Sequential applies its modules in order; the others keep the   *)
(* shape.  The value records the module applied, under the name tag.       *)

LinearFits(m, x) == LastDim(x.shape) = m.in

RECURSIVE ApplyMods(_, _)
ApplyMods(mods, x) ==
    IF mods = <<>> THEN [err |-> NoError, x |-> x]
    ELSE LET m == Head(mods)
         IN  IF m.kind = "Linear"
             THEN IF LinearFits(m, x)
                  THEN ApplyMods(Tail(mods),
                                 [shape |-> [x.shape EXCEPT ![Len(x.shape)] = m.out],
                                  val |-> [kind |-> "Linear", idx |-> m.idx,
                                           of |-> x.val]])
                  ELSE [err |-> Error("RuntimeError", "Linear"), x |-> NoTensor]
             ELSE ApplyMods(Tail(mods),
                            [shape |-> x.shape,
                             val |-> [kind |-> m.kind, of |-> x.val]])

ApplyModule(m, x) ==
    IF m.kind = "Sequential" THEN ApplyMods(m.mods, x) ELSE ApplyMods(<<m>>, x)

\* torch.sigmoid(x)
Sigmoid(x) == [shape |-> x.shape, val |-> [kind |-> "sigmoid", of |-> x.val]]

(* Regressioner.forward(x, _end): the loop from stage i on.  _end is <<>>  *)
(* for None and <<n>> for the integer n.                                     *)

RECURSIVE RegressionerLoop(_, _, _, _, _)
RegressionerLoop(self, x, i, end, fc_feature) ==
    IF i >= end THEN [err |-> NoError, x |-> x, fc_feature |-> fc_feature]
    ELSE IF i >= Len(self.fc)
    THEN [err |-> Error("IndexError", "fc"), x |-> NoTensor,
          fc_feature |-> fc_feature]
    ELSE LET r == ApplyModule(self.fc[i + 1], x)
         IN  IF r.err # NoError
             THEN [err |-> r.err, x |-> NoTensor, fc_feature |-> fc_feature]
             ELSE RegressionerLoop(self, r.x, i + 1, end,
                                   Append(fc_feature, r.x))

\* a variant whose default stops before the final projection
Regressioner_forward_short(self, x, _end) ==
    LET end == IF _end = <<>> THEN self.fc_layers ELSE _end[1]
        r   == RegressionerLoop(self, x, 0, end, <<>>)
    IN  IF r.err # NoError
        THEN [err |-> r.err, pred |-> NoTensor, fc_feature |-> r.fc_feature]
        ELSE [err |-> NoError, pred |-> Sigmoid(r.x),
              fc_feature |-> r.fc_feature]

Regressioner_forward(self, x, _end) ==
    LET end == IF _end = <<>> THEN Len(self.fc) ELSE _end[1]
        r   == RegressionerLoop(self, x, 0, end, <<>>)
    IN  IF r.err # NoError
        THEN [err |-> r.err, pred |-> NoTensor, fc_feature |-> r.fc_feature]
        ELSE [err |-> NoError, pred |-> Sigmoid(r.x),
              fc_feature |-> r.fc_feature]

\* ReverseLayerF.apply(x, alpha): the identity on the forward pass
ReverseLayerF(x, alpha) == x

(* Classifier.forward(x, alpha) *)

Classifier_forward(self, x, alpha) ==
    LET r == ApplyMods(self.fc, ReverseLayerF(x, alpha))
    IN  [err |-> r.err, out |-> r.x]

----------------------------------------------------------------------------
(* numpy's global generator.  A draw of an integer in 0..n-1 reads it off  *)
(* the state and moves the state on.                                        *)

NpDraw(n, s) == [v |-> s % n, np |-> s \div n]

Swap(x, i, j) == [x EXCEPT ![i + 1] = x[j + 1], ![j + 1] = x[i + 1]]

\* np.random.shuffle(x): for i in reversed(range(1, n)): j = draw in 0..i; swap
RECURSIVE ShuffleFrom(_, _, _)
ShuffleFrom(x, i, s) ==
    IF i < 1 THEN [x |-> x, np |-> s]
    ELSE LET d == NpDraw(i + 1, s)
         IN  ShuffleFrom(Swap(x, i, d.v), i - 1, d.np)

shuffle(x, s) == ShuffleFrom(x, Len(x) - 1, s)

\* a variant whose upper end is included, as random.randint's is
randint_closed(low, high, s) ==
    IF low >= high
    THEN [err |-> Error("ValueError", "randint"), v |-> 0, np |-> s]
    ELSE LET d == NpDraw(high - low + 1, s)
         IN  [err |-> NoError, v |-> low + d.v, np |-> d.np]

\* np.random.randint(low, high): low <= v < high; ValueError when low >= high
randint(low, high, s) ==
    IF low >= high
    THEN [err |-> Error("ValueError", "randint"), v |-> 0, np |-> s]
    ELSE LET d == NpDraw(high - low, s)
         IN  [err |-> NoError, v |-> low + d.v, np |-> d.np]

----------------------------------------------------------------------------
(* torch.cat(feature, dim=1), torch.mean(_, dim=1), torch.flatten(_, 1, -1) *)

CatFits(ts) ==
    /\ ts # <<>>
    /\ \A i \in 1..Len(ts) :
         /\ Len(ts[i].shape) = Len(ts[1].shape)
         /\ Len(ts[i].shape) >= 2
         /\ DropDim(ts[i].shape, 1) = DropDim(ts[1].shape, 1)

Cat1(ts) ==
    [shape |-> [ts[1].shape EXCEPT ![2] = SumSeq([i \in 1..Len(ts) |-> ts[i].shape[2]])],
     val |-> [kind |-> "cat", of |-> [i \in 1..Len(ts) |-> ts[i].val]]]

Mean1(t) == [shape |-> DropDim(t.shape, 1),
             val |-> [kind |-> "mean", of |-> t.val.of]]

Flatten(t) == [shape |-> Flatten1(t.shape), val |-> t.val]

\* the last statement of forward
Reduce(feature) ==
    IF ~CatFits(feature)
    THEN [err |-> Error("RuntimeError", "cat"), out |-> NoTensor]
    ELSE IF Len(Mean1(Cat1(feature)).shape) < 2
    THEN [err |-> Error("IndexError", "flatten"), out |-> NoTensor]
    ELSE [err |-> NoError, out |-> Flatten(Mean1(Cat1(feature)))]

\* a variant with sliding windows: index i starts at sample i
Window_sliding(self, dynamic, i) ==
    [shape |-> SliceLast(dynamic.shape, i, i + self.time_len),
     val |-> [kind |-> "slice", of |-> dynamic.val,
              lo |-> i, hi |-> i + self.time_len]]

\* the window of the series that forward hands to get_feature for index i
Window(self, dynamic, i) ==
    [shape |-> SliceLast(dynamic.shape, i * self.time_len, (i + 1) * self.time_len),
     val |-> [kind |-> "slice", of |-> dynamic.val,
              lo |-> i * self.time_len, hi |-> (i + 1) * self.time_len]]

(* The loop of forward over _idx[:off]: idx is what is left of it.  calls   *)
(* lists the get_feature invocations made.                                   *)

RECURSIVE FeatureLoop(_, _, _, _, _, _, _)
FeatureLoop(self, dynamic, idx, reset, th, feature, calls) ==
    IF idx = <<>>
    THEN [err |-> NoError, feature |-> feature, calls |-> calls, th |-> th]
    ELSE LET i   == Head(idx)
             w   == Window(self, dynamic, i)
             fea == get_feature(self, w, reset, th)
             c   == [i |-> i, window |-> w,
                     init |-> IF fea.err = NoError THEN fea.out.val.init
                              ELSE [kind |-> "none"]]
         IN  IF fea.err # NoError
             THEN [err |-> fea.err, feature |-> feature,
                   calls |-> Append(calls, c), th |-> fea.th]
             ELSE FeatureLoop(self, dynamic, Tail(idx), reset, fea.th,
                              Append(feature,
                                     [shape |-> Unsqueeze1(fea.out.shape),
                                      val |-> fea.out.val]),
                              Append(calls, c))

\* a variant without the assertion
Divisible_any(self, dynamic) == TRUE

\* assert dynamic.shape[-1] % self.time_len == 0
Divisible(self, dynamic) == LastDim(dynamic.shape) % self.time_len = 0

\* a variant that keeps the index array of the call before and shuffles it on
arange_kept(n) ==
    IF last.op = "forward" /\ Len(last.idx) = n THEN last.idx ELSE Range(n)

\* np.arange(n)
arange(n) == Range(n)

\* the first off entries of the shuffled indices: _idx[:off]
Prefix(idx, off) == SubSeq(idx, 1, Min(off, Len(idx)))

(* FeatureExtractor.forward(dynamic, feature, batch, reset) from generator  *)
(* states np and th.  feature is [given |-> FALSE] for None, and            *)
(* [given |-> TRUE, list |-> tensors] for a list.                           *)

forward(self, dynamic, feature, reset, np, th) ==
    LET none == [err |-> NoError, np |-> np, th |-> th, idx |-> <<>>, off |-> 0,
                 calls |-> <<>>, out |-> NoTensor]
    IN
    IF feature.given
    THEN LET r == Reduce(feature.list)
         IN  [none EXCEPT !.err = r.err, !.out = r.out]
    ELSE IF ~Divisible(self, dynamic)
    THEN [none EXCEPT !.err = Error("AssertionError", "forward")]
    ELSE
    LET sh  == shuffle(arange(LastDim(dynamic.shape) \div self.time_len), np)
        off == randint(1, Len(sh.x) + 1, sh.np)
    IN  IF off.err # NoError
        THEN [none EXCEPT !.err = off.err, !.np = off.np, !.idx = sh.x]
        ELSE
        LET lp == FeatureLoop(self, dynamic, Prefix(sh.x, off.v), reset, th,
                              <<>>, <<>>)
            r  == Reduce(lp.feature)
        IN  IF lp.err # NoError
            THEN [none EXCEPT !.err = lp.err, !.np = off.np, !.th = lp.th,
                              !.idx = sh.x, !.off = off.v, !.calls = lp.calls]
            ELSE [err |-> r.err, np |-> off.np, th |-> lp.th, idx |-> sh.x,
                  off |-> off.v, calls |-> lp.calls, out |-> r.out]

----------------------------------------------------------------------------
(* Arguments *)

Depths == ResnetDepths \cup {11, 121}

FeatureExtractorArgs ==
    [time_len : 1..MaxTimeLen, sequence_num : 1..MaxChan, output_dim : {1},
     cnn_type : {"resnet", "vgg", "densenet"}, time_type : {"lstm", "gru"},
     fc_layers : {2}, cnn_config : Depths, cuda : BOOLEAN, dropout : {FALSE}]

RegressionerArgs ==
    [in_dim : 1..MaxInDim, output_dim : 1..2, fc_layers : -1..MaxFcLayers,
     cuda : {TRUE}, dropout : BOOLEAN]

ClassifierArgs ==
    [in_dim : 1..MaxInDim, fc_layers : -1..MaxFcLayers,
     cuda : {TRUE}, dropout : BOOLEAN]

\* embeddings handed to a head
Embeddings ==
    {[shape |-> <<b, w>>, val |-> [kind |-> "input"]] :
        b \in 1..MaxBatch, w \in 1..MaxInDim}

EndLayers == {<<>>} \cup {<<n>> : n \in -1..(MaxFc + 2)}

\* series handed to the feature extractor: [batch, length] or [batch, channels, length]
Series ==
    {[shape |-> sh, val |-> [kind |-> "series"]] :
        sh \in {<<b, n>> : b \in 1..MaxBatch, n \in 0..MaxLen}
               \cup {<<b, c, n>> : b \in 1..MaxBatch, c \in 1..MaxChan,
                                   n \in 0..MaxLen}}

\* features computed beforehand by get_feature on one window, as returned
\* or unsqueezed as forward itself does
PreTensors(self) ==
    LET w == [shape |-> <<1, self.sequence_num, self.time_len>>,
              val |-> [kind |-> "series"]]
        f == get_feature(self, w, FALSE, 0).out
    IN  {f, [shape |-> Unsqueeze1(f.shape), val |-> f.val]}

\* the lists of them a caller hands over: empty, or one feature
PreLists(self) == {<<>>} \cup {<<t>> : t \in PreTensors(self)}

FeatureArgs(self) ==
    {[given |-> FALSE, list |-> <<>>]}
    \cup {[given |-> TRUE, list |-> l] : l \in PreLists(self)}

----------------------------------------------------------------------------
(* Construction *)

NewFeatureExtractor(a) ==
    /\ proc = "running"
    /\ net = NoNet
    /\ \E r \in {FeatureExtractor_init(a)} :
           /\ net' = r.self
           /\ ctor' = [class |-> "FeatureExtractor", args |-> a, err |-> r.err]
           /\ stdout' = stdout \o r.printed
           /\ proc' = IF r.exit THEN "exited" ELSE proc
    /\ last' = NoCall
    /\ UNCHANGED <<np_state, torch_state, again>>

NewRegressioner(a) ==
    /\ proc = "running"
    /\ net = NoNet
    /\ \E r \in {Regressioner_init(a)} :
           /\ net' = r.self
           /\ ctor' = [class |-> "Regressioner", args |-> a, err |-> r.err]
    /\ last' = NoCall
    /\ UNCHANGED <<proc, stdout, np_state, torch_state, again>>

NewClassifier(a) ==
    /\ proc = "running"
    /\ net = NoNet
    /\ \E r \in {Classifier_init(a)} :
           /\ net' = r.self
           /\ ctor' = [class |-> "Classifier", args |-> a, err |-> r.err]
    /\ last' = NoCall
    /\ UNCHANGED <<proc, stdout, np_state, torch_state, again>>

\* the program drops the instance it holds
Del ==
    /\ proc = "running"
    /\ net # NoNet
    /\ net' = NoNet
    /\ ctor' = NoCtor
    /\ last' = NoCall
    /\ UNCHANGED <<proc, stdout, np_state, torch_state, again>>

----------------------------------------------------------------------------
(* Calls on the heads *)

RegressionerForward(x, _end) ==
    /\ proc = "running"
    /\ net.class = "Regressioner"
    /\ \E r \in {Regressioner_forward(net, x, _end)} :
           last' = [op |-> "Regressioner.forward", x |-> x, end |-> _end,
                    err |-> r.err, pred |-> r.pred, fc_feature |-> r.fc_feature]
    /\ UNCHANGED <<proc, stdout, net, ctor, np_state, torch_state, again>>

ClassifierForward(x, alpha) ==
    /\ proc = "running"
    /\ net.class = "Classifier"
    /\ \E r \in {Classifier_forward(net, x, alpha)} :
           last' = [op |-> "Classifier.forward", x |-> x, alpha |-> alpha,
                    err |-> r.err, out |-> r.out]
    /\ UNCHANGED <<proc, stdout, net, ctor, np_state, torch_state, again>>

----------------------------------------------------------------------------
(* Calls on the feature extractor *)

NoAgain == [key |-> FALSE, same |-> FALSE]

Key(c) == <<c.dynamic, c.feature, c.reset, c.np0, c.th0>>
Outcome(c) == <<c.err, c.idx, c.off, c.calls, c.out>>

Forward(dynamic, feature, reset) ==
    /\ proc = "running"
    /\ net.class = "FeatureExtractor"
    /\ \E r \in {forward(net, dynamic, feature, reset, np_state, torch_state)} :
       LET c == [op |-> "forward", dynamic |-> dynamic, feature |-> feature,
                 reset |-> reset, np0 |-> np_state, th0 |-> torch_state,
                 err |-> r.err, idx |-> r.idx, off |-> r.off,
                 calls |-> r.calls, out |-> r.out]
       IN  /\ last' = c
           /\ np_state' = r.np
           /\ torch_state' = r.th
           /\ again' = IF last.op = "forward"
                       THEN [key |-> Key(last) = Key(c),
                             same |-> Outcome(last) = Outcome(c)]
                       ELSE NoAgain
    /\ UNCHANGED <<proc, stdout, net, ctor>>

GetFeature(dynamic, reset) ==
    /\ proc = "running"
    /\ net.class = "FeatureExtractor"
    /\ LastDim(dynamic.shape) >= 1
    /\ \E r \in {get_feature(net, dynamic, reset, torch_state)} :
           /\ last' = [op |-> "get_feature", dynamic |-> dynamic,
                       reset |-> reset, th0 |-> torch_state,
                       err |-> r.err, out |-> r.out]
           /\ torch_state' = r.th
    /\ again' = NoAgain
    /\ UNCHANGED <<proc, stdout, net, ctor, np_state>>

\* the caller takes the result of the call
Return ==
    /\ proc = "running"
    /\ last # NoCall
    /\ last' = NoCall
    /\ again' = NoAgain
    /\ UNCHANGED <<proc, stdout, net, ctor, np_state, torch_state>>

\* the caller fixes the seed: np.random.seed(s); torch.manual_seed(s)
Seed(s) ==
    /\ proc = "running"
    /\ np_state' = s
    /\ torch_state' = s % TorchPeriod
    /\ UNCHANGED <<proc, stdout, net, ctor, last, again>>

----------------------------------------------------------------------------
(* Specifications *)

Init ==
    /\ proc = "running"
    /\ stdout = <<>>
    /\ net = NoNet
    /\ ctor = NoCtor
    /\ last = NoCall
    /\ np_state = 0
    /\ torch_state = 0
    /\ again = NoAgain

Next ==
    \/ \E a \in FeatureExtractorArgs : NewFeatureExtractor(a)
    \/ \E a \in RegressionerArgs : NewRegressioner(a)
    \/ \E a \in ClassifierArgs : NewClassifier(a)
    \/ Del
    \/ \E x \in Embeddings, e \in EndLayers : RegressionerForward(x, e)
    \/ \E x \in Embeddings, alpha \in 0..1 : ClassifierForward(x, alpha)

Spec == Init /\ [][Next]_vars

\* the feature extractors whose methods SpecForward and SpecSeeded follow
ForwardArgs ==
    {a \in FeatureExtractorArgs :
        /\ a.cnn_type = "resnet" /\ a.time_type = "lstm"
        /\ a.cnn_config \in {18, 50}}

InitForward ==
    /\ proc = "running"
    /\ stdout = <<>>
    /\ \E a \in ForwardArgs :
         /\ net = FeatureExtractor_init(a).self
         /\ ctor = [class |-> "FeatureExtractor", args |-> a,
                    err |-> FeatureExtractor_init(a).err]
    /\ last = NoCall
    /\ np_state \in 0..(NpSeeds - 1)
    /\ torch_state \in 0..(TorchPeriod - 1)
    /\ again = NoAgain

\* one call at a time: the caller takes the result before the next call
NextForward ==
    \/ /\ last = NoCall
       /\ \E d \in Series, r \in BOOLEAN :
            \E f \in FeatureArgs(net) : Forward(d, f, r)
    \/ /\ last = NoCall
       /\ \E d \in Series, r \in BOOLEAN : GetFeature(d, r)
    \/ /\ last = NoCall
       /\ \E s \in 0..(NpSeeds - 1) : Seed(s)
    \/ Return

SpecForward == InitForward /\ [][NextForward]_vars

\* the seeds the caller fixes, and the series of its repeated calls
FixedSeeds == {s \in 0..(NpSeeds - 1) : s % 5 = 2}

SeededSeries ==
    {d \in Series : Len(d.shape) = 3 /\ d.shape[1] = 1
                    /\ d.shape[2] = net.sequence_num}

InitSeeded ==
    /\ InitForward
    /\ net.cnn_config = 18
    /\ net.sequence_num = 1
    /\ np_state \in FixedSeeds
    /\ torch_state = np_state % TorchPeriod

\* forward called again and again, the caller seeding in between
NextSeeded ==
    \/ \E d \in SeededSeries, r \in BOOLEAN :
         Forward(d, [given |-> FALSE, list |-> <<>>], r)
    \/ \E s \in FixedSeeds : Seed(s)

SpecSeeded == InitSeeded /\ [][NextSeeded]_vars

----------------------------------------------------------------------------
(* Properties.  Each is stated on the record of the last constructor call   *)
(* (ctor), the last method call (last) and the instance (net).              *)

\* a forward call that samples windows: no precomputed features were given
Sampled == last.op = "forward" /\ ~last.feature.given

SeriesLen == LastDim(last.dynamic.shape)

\* the number of windows k of the series of the last call
NumWindows == SeriesLen \div net.time_len

\* the channel count of the input of the last call: a series without a
\* channel axis has one channel
InputChannels ==
    IF Len(last.dynamic.shape) = 2 THEN 1 ELSE last.dynamic.shape[2]

IsPermutation(idx, k) == Len(idx) = k /\ {idx[j] : j \in 1..k} = 0..(k - 1)

(* C1: in a forward call without precomputed features on a series whose    *)
(* length is a multiple k >= 1 of the window length, off is drawn and       *)
(* 1 <= off <= k, whatever the generator yields.                            *)
C1_OffInRange ==
    (/\ Sampled
     /\ SeriesLen % net.time_len = 0
     /\ NumWindows >= 1)
    => /\ 1 <= last.off
       /\ last.off <= NumWindows

C1_Witness ==
    /\ Sampled
    /\ NumWindows = 3
    /\ last.off = 3

(* C2: in a forward call without precomputed features the get_feature      *)
(* invocations are made on the first entries of a permutation of 0..k-1,    *)
(* pairwise distinct, never more than off of them, each on the slice        *)
(* [i*time_len, (i+1)*time_len) which lies inside the series and has        *)
(* length time_len; a call that returns has made exactly off invocations    *)
(* and returns the mean over exactly those window features, in order.       *)
C2_WindowsAndMean ==
    Sampled =>
      /\ last.err.at # "forward" => IsPermutation(last.idx, NumWindows)
      /\ Len(last.calls) <= last.off
      /\ \A j \in 1..Len(last.calls) :
           LET c == last.calls[j]
           IN  /\ c.i = last.idx[j]
               /\ c.window.val.lo = c.i * net.time_len
               /\ c.window.val.hi = (c.i + 1) * net.time_len
               /\ c.window.val.hi <= SeriesLen
               /\ LastDim(c.window.shape) = net.time_len
               /\ \A j2 \in 1..Len(last.calls) :
                    j2 # j => last.calls[j2].i # c.i
      /\ last.err = NoError =>
           /\ Len(last.calls) = last.off
           /\ last.out.val.kind = "mean"
           /\ Len(last.out.val.of) = last.off
           /\ \A j \in 1..last.off :
                /\ last.out.val.of[j].kind = "feature"
                /\ last.out.val.of[j].of = last.calls[j].window.val

C2_Witness ==
    /\ Sampled
    /\ last.err = NoError
    /\ net.time_len = 2
    /\ NumWindows = 2
    /\ last.off = 2
    /\ last.idx = <<1, 0>>

(* C3: a Regressioner or Classifier constructed with fc_layers outside     *)
(* 1..5 fails and leaves no instance, and with fc_layers in 1..5 it is      *)
(* built; a FeatureExtractor of family resnet with a depth outside          *)
(* {18, 34, 50, 101, 152} fails and leaves no instance, and with a listed   *)
(* depth it passes the family and depth checks.                             *)
C3_InvalidConstruction ==
    /\ (/\ ctor.class \in {"Regressioner", "Classifier"}
        /\ ctor.args.fc_layers \notin 1..5)
       => (ctor.err.type # "none" /\ net = NoNet)
    /\ (/\ ctor.class \in {"Regressioner", "Classifier"}
        /\ ctor.args.fc_layers \in 1..5)
       => (ctor.err = NoError /\ net.class = ctor.class)
    /\ (/\ ctor.class = "FeatureExtractor"
        /\ ctor.args.cnn_type = "resnet"
        /\ ctor.args.cnn_config \notin {18, 34, 50, 101, 152})
       => (ctor.err.type # "none" /\ net = NoNet)
    /\ (/\ ctor.class = "FeatureExtractor"
        /\ ctor.args.cnn_type = "resnet"
        /\ ctor.args.cnn_config \in {18, 34, 50, 101, 152})
       => ctor.err.at \notin {"cnn_type", "cnn_config"}

C3_Witness ==
    /\ ctor.class = "Regressioner"
    /\ ctor.args.fc_layers = 0
    /\ ctor.err.type = "AssertionError"
    /\ net = NoNet

\* the construction of a FeatureExtractor whose family or depth is refused
BadBackbone ==
    /\ ctor.class = "FeatureExtractor"
    /\ \/ ctor.args.cnn_type # "resnet"
       \/ ctor.args.cnn_config \notin {18, 34, 50, 101, 152}

ReportedAndExited ==
    /\ ctor.err.type = "SystemExit"
    /\ proc = "exited"
    /\ stdout = <<DepthMessage(ctor.args.cnn_config)>>

AggregatorRefused ==
    /\ ctor.err = Error("NotImplementedError", "time_type")
    /\ proc = "running"
    /\ stdout = <<>>

(* C4 as stated: any family other than resnet, and resnet with an invalid  *)
(* depth, reports the configuration and terminates the process; an          *)
(* unsupported aggregator fails with a not-implemented error; the family    *)
(* and depth are decided before the aggregator.                             *)
C4_AsStated ==
    /\ BadBackbone => ReportedAndExited
    /\ (/\ ctor.class = "FeatureExtractor"
        /\ ~BadBackbone
        /\ ctor.args.time_type # "lstm") => AggregatorRefused

(* C4, amended: resnet with an invalid depth reports the configuration and *)
(* terminates the process; any other family fails with a not-implemented    *)
(* error, reporting nothing and leaving the process running; an unsupported *)
(* aggregator fails with a not-implemented error; the family and depth are  *)
(* decided before the aggregator.                                           *)
C4_FailFast ==
    /\ (/\ ctor.class = "FeatureExtractor"
        /\ ctor.args.cnn_type = "resnet"
        /\ ctor.args.cnn_config \notin {18, 34, 50, 101, 152})
       => ReportedAndExited
    /\ (/\ ctor.class = "FeatureExtractor"
        /\ ctor.args.cnn_type # "resnet")
       => /\ ctor.err = Error("NotImplementedError", "cnn_type")
          /\ proc = "running"
          /\ stdout = <<>>
    /\ (/\ ctor.class = "FeatureExtractor"
        /\ ~BadBackbone
        /\ ctor.args.time_type # "lstm") => AggregatorRefused
    /\ BadBackbone => ctor.err.at \in {"cnn_type", "cnn_config"}

C4_Witness ==
    /\ ctor.class = "FeatureExtractor"
    /\ ctor.args.cnn_type = "vgg"
    /\ ctor.args.time_type = "gru"
    /\ ctor.err = Error("NotImplementedError", "cnn_type")
    /\ proc = "running"

\* a Regressioner.forward call on an embedding of the configured width with
\* end_layer omitted or in 0..fc_layers+1
RegCall ==
    /\ last.op = "Regressioner.forward"
    /\ LastDim(last.x.shape) = net.in_dim
    /\ (last.end # <<>> => last.end[1] \in 0..(net.fc_layers + 1))

EndLayer == IF last.end = <<>> THEN net.fc_layers + 1 ELSE last.end[1]

\* the list returned has EndLayer entries, entry i the output of stage i
\* applied to entry i-1, to x for the first
StagesInOrder ==
    /\ last.err = NoError
    /\ Len(last.fc_feature) = EndLayer
    /\ \A i \in 1..Len(last.fc_feature) :
         LET r == ApplyModule(net.fc[i],
                              IF i = 1 THEN last.x ELSE last.fc_feature[i - 1])
         IN  r.err = NoError /\ last.fc_feature[i] = r.x

(* C5 as stated: for every end_layer in 0..fc_layers+1 the prediction is   *)
(* the sigmoid of the output of the last stage applied.                     *)
C5_AsStated ==
    RegCall =>
      /\ StagesInOrder
      /\ \E j \in 1..Len(last.fc_feature) :
           /\ j = Len(last.fc_feature)
           /\ last.pred = Sigmoid(last.fc_feature[j])

(* C5, amended: forward applies stages 0..end_layer-1 in order (all         *)
(* fc_layers+1 when end_layer is omitted) and returns their outputs in      *)
(* order; for end_layer in 1..fc_layers+1 the prediction is the sigmoid of  *)
(* the last stage's output, and for end_layer = 0 no stage is applied, the  *)
(* list is empty and the prediction is the sigmoid of x itself.             *)
C5_StagesAndSigmoid ==
    RegCall =>
      /\ StagesInOrder
      /\ last.pred = Sigmoid(IF EndLayer = 0 THEN last.x
                             ELSE last.fc_feature[EndLayer])

C5_Witness ==
    /\ RegCall
    /\ net.fc_layers = 3
    /\ last.end = <<2>>
    /\ Len(last.fc_feature) = 2
    /\ last.pred = Sigmoid(last.fc_feature[2])

IsLinear(m) == m.kind = "Linear"
IsLeakyReLU(m) == m.kind = "LeakyReLU"

\* the Linear layers of the instance, in order
Linears ==
    IF net.class = "Regressioner"
    THEN [i \in 1..Len(net.fc) |->
            IF net.fc[i].kind = "Sequential" THEN net.fc[i].mods[1] ELSE net.fc[i]]
    ELSE SelectSeq(net.fc, IsLinear)

WidthTable == <<net.in_dim, 512, 256, 256, 128, 128>>

(* C6: a Regressioner or Classifier built with fc_layers in 1..5 has        *)
(* fc_layers hidden stages whose widths follow in_dim, 512, 256, 256, 128,  *)
(* 128, each stage's input width the output width of the stage before,      *)
(* then one final Linear from the table entry at index fc_layers to         *)
(* output_dim (Regressioner) or 2 (Classifier).                             *)
C6_WidthSchedule ==
    net.class \in {"Regressioner", "Classifier"} =>
      /\ net.fc_layers \in 1..5
      /\ Len(Linears) = net.fc_layers + 1
      /\ \A i \in 1..net.fc_layers :
           /\ Linears[i].kind = "Linear"
           /\ Linears[i].in = WidthTable[i]
           /\ Linears[i].out = WidthTable[i + 1]
      /\ \A i \in 2..(net.fc_layers + 1) : Linears[i].in = Linears[i - 1].out
      /\ Linears[net.fc_layers + 1].in = WidthTable[net.fc_layers + 1]
      /\ net.class = "Regressioner" =>
           /\ Linears[net.fc_layers + 1].out = net.output_dim
           /\ Len(net.fc) = net.fc_layers + 1
           /\ \A i \in 1..net.fc_layers : net.fc[i].kind = "Sequential"
           /\ net.fc[net.fc_layers + 1].kind = "Linear"
      /\ net.class = "Classifier" =>
           /\ Linears[net.fc_layers + 1].out = 2
           /\ Len(SelectSeq(net.fc, IsLeakyReLU)) = net.fc_layers
           /\ net.fc[Len(net.fc)].kind = "LogSoftmax"
           /\ net.fc[Len(net.fc) - 1].kind = "Linear"

C6_Witness ==
    /\ net.class = "Classifier"
    /\ net.fc_layers = 5
    /\ net.in_dim = 2
    /\ Linears[6].in = 128
    /\ Linears[6].out = 2

\* nothing was drawn and no window feature computed in the last call
NothingDrawn ==
    /\ np_state = last.np0
    /\ torch_state = last.th0
    /\ last.idx = <<>>
    /\ last.off = 0
    /\ last.calls = <<>>

(* C7 as stated: every forward call on a series whose length is not        *)
(* divisible by the window length, or whose channel count differs from the  *)
(* configured one, fails with an assertion error, in the first case before  *)
(* any draw and any window feature.                                         *)
C7_AsStated ==
    last.op = "forward" =>
      /\ (SeriesLen % net.time_len # 0 \/ InputChannels # net.sequence_num)
         => last.err.type = "AssertionError"
      /\ SeriesLen % net.time_len # 0 => NothingDrawn

(* C7, amended: a forward call without precomputed features fails with an  *)
(* assertion error when the series length is not divisible by the window    *)
(* length, before any draw and any window feature, and when the length is   *)
(* a positive multiple of the window length and the channel count differs   *)
(* from the configured one, in the first get_feature invocation.            *)
C7_ShapeAssertions ==
    Sampled =>
      /\ SeriesLen % net.time_len # 0
         => (last.err = Error("AssertionError", "forward") /\ NothingDrawn)
      /\ (/\ SeriesLen % net.time_len = 0
          /\ SeriesLen > 0
          /\ InputChannels # net.sequence_num)
         => /\ last.err = Error("AssertionError", "get_feature")
            /\ Len(last.calls) = 1
            /\ torch_state = last.th0

C7_Witness ==
    /\ Sampled
    /\ SeriesLen % net.time_len = 0
    /\ InputChannels # net.sequence_num
    /\ last.off = 2
    /\ Len(last.calls) = 1
    /\ last.err = Error("AssertionError", "get_feature")

ProbeWindow ==
    [shape |-> <<1, net.sequence_num, net.time_len>>, val |-> [kind |-> "zeros"]]

FcDimAsConstructed ==
    /\ net = FeatureExtractor_init(ctor.args).self
    /\ net.fc_dim = Prod(get_feature(net, ProbeWindow, FALSE, 0).out.shape)

(* C9 as stated: every forward call that returns, returns a tensor of      *)
(* shape [batch, fc_dim], fc_dim being the value the constructor computed.  *)
C9_AsStated ==
    /\ FcDimAsConstructed
    /\ (last.op = "forward" /\ last.err = NoError)
       => last.out.shape = <<last.dynamic.shape[1], net.fc_dim>>

(* C9, amended: every forward call without precomputed features that       *)
(* returns, returns a tensor of shape [batch, fc_dim], whatever off was     *)
(* drawn; fc_dim is the value the constructor computed from its probe of    *)
(* one zero window, and no forward or get_feature call changes it.          *)
C9_OutputShape ==
    /\ FcDimAsConstructed
    /\ (Sampled /\ last.err = NoError)
       => last.out.shape = <<last.dynamic.shape[1], net.fc_dim>>

C9_Witness ==
    /\ Sampled
    /\ last.err = NoError
    /\ last.dynamic.shape[1] = 2
    /\ last.off = 2
    /\ last.out.shape = <<2, net.fc_dim>>

\* the initial recurrent states the get_feature invocations of the last
\* call ran the aggregator with
InitsUsed ==
    IF last.op = "get_feature" /\ last.err = NoError
    THEN {last.out.val.init}
    ELSE IF Sampled
    THEN {last.calls[j].init : j \in {i \in 1..Len(last.calls) :
                                         last.calls[i].init.kind # "none"}}
    ELSE {}

StateShape == <<1, last.dynamic.shape[1], net.time_hid_dim>>

IsStatePair(u) ==
    /\ u.kind = "pair"
    /\ u.h.shape = StateShape
    /\ u.c.shape = StateShape
    /\ u.h.val.kind = "xavier"

(* C10 as stated: with reset true the aggregator starts from a pair of     *)
(* shape [1, batch, hidden_dim] whose cell state is a copy of the hidden    *)
(* state; with reset false it starts from the zero state.                   *)
C10_AsStated ==
    \A u \in InitsUsed :
      IF last.reset THEN IsStatePair(u) /\ u.c = u.h ELSE u = ZeroState

(* C10, amended: with reset true the aggregator starts from the pair       *)
(* init_hidden returns, of shape [1, batch, hidden_dim] each; with the GPU  *)
(* flag set the cell state is a copy of the hidden state, and without it    *)
(* the cell state is a Xavier draw of its own; with reset false the         *)
(* aggregator starts from the zero state.                                   *)
C10_InitialState ==
    \A u \in InitsUsed :
      IF last.reset
      THEN /\ IsStatePair(u)
           /\ net.cuda => u.c = u.h
           /\ ~net.cuda => (u.c.val.kind = "xavier" /\ u.c.val # u.h.val)
      ELSE u = ZeroState

C10_Witness ==
    /\ last.op = "get_feature"
    /\ last.err = NoError
    /\ last.reset
    /\ net.cuda
    /\ last.out.val.init.c = last.out.val.init.h

====
